---- MODULE Spec2Model ----
(***************************************************************************)
(* Multiplayer blackjack bot (bj.py): one chat's game session, the deck,   *)
(* the hand evaluator, the turn sequencing and the button handler that     *)
(* drives them, together with the chat's entry in the session registry.    *)
(*                                                                         *)
(* A card is represented by its rank: the game logic never reads a suit    *)
(* (Card.value and calculate_hand_value read rank only), so the deck is    *)
(* the bag rank -> number of cards of that rank still in it, one per suit  *)
(* at construction.  random.shuffle followed by pop() is a nondeterministic*)
(* choice of one of the cards still in the deck.                           *)
(***************************************************************************)
EXTENDS Integers, Sequences, FiniteSets, TLC

\* ---- bounds of the exploration -------------------------------------------
\* A rematch is explored only while the |total_score| of the players add up
\* to less than this.
MaxScore == 2
\* Users that press buttons in the chat in the roster specification.
NumRosterUsers == 7

\* How far back the clock of the sweep specification reaches, in ticks: a
\* timestamp older than this is kept as exactly this old.  It has to exceed the
\* longest threshold the code compares an idle time with (2 hours = 24 ticks).
MaxTime == 26

\* The longest hand calculate_hand_value is applied to in the hand
\* specification.
MaxHandLen == 5

\* How many ranks the shuffles followed bring to the top of a deck, counted
\* from the front of ExploreOrder: in the specification of the whole handler,
\* in the roster and sweep specifications, and in the deck specification.
\* Every card of the deck is still dealt: once the cards of these ranks are
\* gone the shuffles followed have the next rank of ExploreOrder on top.
NumExploredRanks == 2
NumTableRanks == 1
NumDeckRanks == 3
\* The same for the specification of the full table, counted from the front of
\* LowOrder and of LongOrder.
NumLowRanks == 1
\* The least a hand is worth when its holder stands, at that table.
StandFrom == 17

\* ---- program constants ---------------------------------------------------
MaxPlayers == 6
ReshuffleBelow == 10
DealerStandsAt == 17
BustAbove == 21
AceHigh == 11
AceAdjust == 10
FaceValue == 10
HandSize == 2
\* One tick of the clock is the shortest duration in the code, the 300 s
\* back-off of the cleanup task; the other durations are multiples of it.
TickSeconds == 300
CheckEverySeconds == 3600
BackgroundHours == 2
AdminHours == 1
\* The allow-list of cleanup_command holds two ids that the code treats alike;
\* 7992334111 is beyond the integers of the model checker and is left out.
AdminIds == {987654321}

SUITS == <<"spades", "hearts", "diamonds", "clubs">>
RANKS == <<"2", "3", "4", "5", "6", "7", "8", "9", "10", "J", "Q", "K", "A">>

RankSet == {RANKS[i] : i \in 1..Len(RANKS)}

\* The users that send commands and press buttons in the chat (Spec).
Users == {1, 2}
\* The users of the roster specification.
RosterUsers == 1..NumRosterUsers

\* The users of the sweep specification: one ordinary user, who plays, and one
\* admin; both send /cleanup.
SweepPlayers == {1}
SweepUsers == SweepPlayers \cup {987654321}

\* Python's None for "no current player"; Telegram user ids are positive.
None == 0

\* The order in which ranks are taken into the shuffles followed.
ExploreOrder == <<"K", "6", "Q", "J", "10", "9", "8", "7", "5", "4", "3", "2", "A">>

\* The orders followed at the full table: the low cards first, and an order
\* in which six players who all draw until they bust, and the dealer, take 37
\* cards of one deck between them, the most a search over the orders found.
LowOrder == <<"A", "2", "3", "4", "5", "6", "7", "8", "9", "10", "J", "Q", "K">>
LongOrder == <<"6", "3", "5", "4", "8", "A", "7", "9", "2", "J", "K", "Q", "10">>

\* The shuffles followed, as the ranks they bring to the top of a deck: any of
\* the first n ranks of the order while a card of one is left, and then the
\* ranks of the order one after the other.
ShufflesIn(order, n) ==
    <<{order[i] : i \in 1..(IF n < Len(order) THEN n ELSE Len(order))}>>
        \o [i \in 1..Len(order) |-> {order[i]}]

Shuffles(n) == ShufflesIn(ExploreOrder, n)

\* Every shuffle is followed.
AllShuffles == <<RankSet>>

Actions == {"join", "start_game", "hit", "stand", "status", "rematch",
            "leaderboard", "cancel"}

VARIABLES
    registered,            \* chat_id in active_games
    players,               \* game.players, in insertion (join) order
    dealer_hand,           \* game.dealer_hand
    deck,                  \* game.deck.cards, as a bag of ranks
    game_state,            \* game.game_state
    current_player_index,  \* game.current_player_index
    creator_id,            \* game.creator_id
    last_activity,         \* game.last_activity
    now,                   \* datetime.now()
    returned,              \* the latest return of a session operation: which
                           \* operation, its value, and what next_player
                           \* returned when the handler went on to call it
    wake_at,               \* when the sleeping cleanup_inactive_games task resumes
    handler,               \* the button_handler coroutine: idle, or suspended
                           \* at the await that sends its reply
    shuffles               \* what random.shuffle does in this behaviour: the
                           \* ranks it brings to the top of a deck, in the
                           \* order in which they are used up

session == <<players, dealer_hand, deck, game_state, current_player_index, creator_id>>
vars == <<registered, players, dealer_hand, deck, game_state, current_player_index,
          creator_id, last_activity, now, returned, wake_at, handler, shuffles>>

\* The asyncio side of the program, which the session operations never touch.
tasks == <<wake_at, handler>>

\* What no operation of the program changes: the asyncio side during a
\* session operation, and the shuffles followed.
outside == <<tasks, shuffles>>

\* ---- Card -----------------------------------------------------------------
RankIndex(rank) == CHOOSE i \in 1..Len(RANKS) : RANKS[i] = rank

\* Card.value: int(rank) for "2".."10" is the rank's position plus one.
CardValue(rank) ==
    IF rank \in {"J", "Q", "K"} THEN FaceValue
    ELSE IF rank = "A" THEN AceHigh
    ELSE RankIndex(rank) + 1

\* ---- Deck -----------------------------------------------------------------
\* Deck.__init__: one card per suit and rank.
FullDeck == [r \in RankSet |-> Len(SUITS)]

RECURSIVE SumCounts(_, _)
SumCounts(d, i) == IF i = 0 THEN 0 ELSE d[RANKS[i]] + SumCounts(d, i - 1)

\* len(self.cards)
DeckLen(d) == SumCounts(d, Len(RANKS))

\* Mutant of DeckBeforePop: the deck is regenerated below 20 cards.
DeckBeforePopEarly(d) == IF DeckLen(d) < 20 THEN FullDeck ELSE d

\* Mutant of DeckBeforePop: the deck is only regenerated once it is empty.
DeckBeforePopMut(d) == IF DeckLen(d) = 0 THEN FullDeck ELSE d

\* The cards deal() pops from: a regenerated deck when running low.
DeckBeforePop(d) == IF DeckLen(d) < ReshuffleBelow THEN FullDeck ELSE d

\* deal() can return a card of this rank.
CanDeal(d, rank) == DeckBeforePop(d)[rank] > 0

\* The ranks deal() can return: after random.shuffle any card of the deck can
\* be the last of the list, which pop() takes.
TopRanks(d) == {r \in RankSet : CanDeal(d, r)}

\* The ranks on top of the deck in the shuffles followed: those of the first
\* set of `shuffles` of which a card is left, so that deal() returns a card
\* whenever the code's does.  A subset of TopRanks(d), and all of it when
\* shuffles = AllShuffles.
DealExplored(d) ==
    LET cards == DeckBeforePop(d)
        left == {i \in 1..Len(shuffles) : \E r \in shuffles[i] : cards[r] > 0}
    IN {r \in shuffles[CHOOSE i \in left : \A j \in left : i <= j] : cards[r] > 0}

\* The deck after deal() returned a card of this rank.
DeckAfterDeal(d, rank) == [DeckBeforePop(d) EXCEPT ![rank] = @ - 1]

\* ---- hand evaluation ------------------------------------------------------
RECURSIVE SumValues(_, _)
SumValues(hand, i) == IF i = 0 THEN 0 ELSE CardValue(hand[i]) + SumValues(hand, i - 1)

RECURSIVE CountAces(_, _)
CountAces(hand, i) ==
    IF i = 0 THEN 0 ELSE (IF hand[i] = "A" THEN 1 ELSE 0) + CountAces(hand, i - 1)

\* Mutant of AdjustAces: at most one Ace is counted down.
AdjustAcesMut(value, aces) ==
    IF value > BustAbove /\ aces > 0 THEN value - AceAdjust ELSE value

RECURSIVE AdjustAces(_, _)
AdjustAces(value, aces) ==
    IF value > BustAbove /\ aces > 0 THEN AdjustAces(value - AceAdjust, aces - 1) ELSE value

calculate_hand_value(hand) ==
    AdjustAces(SumValues(hand, Len(hand)), CountAces(hand, Len(hand)))

\* ---- MultiplayerBlackjackGame: the player table -----------------------------
\* The entry add_player stores; the 'result' key is absent until
\* calculate_results sets it, and "none" stands for the absent key.
NewPlayer(user_id) ==
    [id |-> user_id, hand |-> <<>>, status |-> "waiting", game_score |-> 0,
     total_score |-> 0, result |-> "none"]

PlayerIds(ps) == {ps[i].id : i \in 1..Len(ps)}

\* Mutant of CanAddPlayer: off by one on the capacity.
CanAddPlayerMut(ps, user_id) == user_id \notin PlayerIds(ps) /\ Len(ps) <= MaxPlayers

\* The condition under which add_player adds and returns True.
CanAddPlayer(ps, user_id) == user_id \notin PlayerIds(ps) /\ Len(ps) < MaxPlayers

\* self.players after add_player(user_id).
add_player(ps, user_id) ==
    IF CanAddPlayer(ps, user_id) THEN Append(ps, NewPlayer(user_id)) ELSE ps

\* get_current_player_id for a player table and a turn index (0-based).
get_current_player_id(ps, idx) == IF idx < Len(ps) THEN ps[idx + 1].id ELSE None

\* Mutant of NotYourTurn: any member of the roster may act while a turn is
\* pending (membership is tested instead of the turn).
NotYourTurnMut(user_id) ==
    current_player_index >= Len(players) \/ user_id \notin PlayerIds(players)

\* The test that makes player_hit and player_stand return "not_your_turn".
NotYourTurn(user_id) == user_id # get_current_player_id(players, current_player_index)

\* self.players after player_hit appended a card of this rank to the hand of
\* the player at idx and marked the player busted above 21.
player_hit(ps, idx, rank) ==
    LET hand == Append(ps[idx + 1].hand, rank) IN
    [ps EXCEPT ![idx + 1].hand = hand,
               ![idx + 1].status =
                   IF calculate_hand_value(hand) > BustAbove THEN "busted" ELSE @]

\* self.players after player_stand for the player at idx.
player_stand(ps, idx) == [ps EXCEPT ![idx + 1].status = "stood"]

\* The loop of next_player: skip players who are done.
RECURSIVE SkipDone(_, _)
SkipDone(ps, idx) ==
    IF get_current_player_id(ps, idx) # None /\ ps[idx + 1].status \in {"busted", "stood"}
    THEN SkipDone(ps, idx + 1)
    ELSE idx

\* Mutant of NextIndex: the turn is not advanced.
NextIndexMut(ps, idx) == idx

\* current_player_index after next_player.
NextIndex(ps, idx) == SkipDone(ps, idx + 1)

\* Mutant of DealerDraws: the dealer also draws on 17.
DealerDrawsMut(hand) == calculate_hand_value(hand) <= DealerStandsAt

\* The loop condition of dealer_play.
DealerDraws(hand) == calculate_hand_value(hand) < DealerStandsAt

\* dealer_play: every (dealer hand, deck) the dealer can end with, drawing
\* while the hand is worth less than 17.
RECURSIVE dealer_play(_, _)
dealer_play(hand, d) ==
    IF DealerDraws(hand)
    THEN UNION {dealer_play(Append(hand, rank), DeckAfterDeal(d, rank)) :
                    rank \in DealExplored(d)}
    ELSE {<<hand, d>>}

\* Mutant of PlayerResult: the dealer's bust is tested before the player's.
PlayerResultMut(status, player_value, dealer_value) ==
    IF dealer_value > BustAbove THEN "dealer_bust"
    ELSE IF status = "busted" THEN "bust"
    ELSE IF player_value > dealer_value THEN "win"
    ELSE IF player_value < dealer_value THEN "lose"
    ELSE "push"

\* The result calculate_results gives one player.
PlayerResult(status, player_value, dealer_value) ==
    IF status = "busted" THEN "bust"
    ELSE IF dealer_value > BustAbove THEN "dealer_bust"
    ELSE IF player_value > dealer_value THEN "win"
    ELSE IF player_value < dealer_value THEN "lose"
    ELSE "push"

\* The game_score calculate_results sets along with each result.
ResultScore(res) ==
    CASE res = "bust" -> -1
      [] res = "dealer_bust" -> 1
      [] res = "win" -> 1
      [] res = "lose" -> -1
      [] OTHER -> 0

\* self.players after calculate_results.
calculate_results(ps, dealer) ==
    [i \in 1..Len(ps) |->
        LET res == PlayerResult(ps[i].status, calculate_hand_value(ps[i].hand),
                                calculate_hand_value(dealer))
        IN [ps[i] EXCEPT !.result = res,
                         !.game_score = ResultScore(res),
                         !.total_score = @ + ResultScore(res)]]

\* Every (ranks dealt, deck left) of k consecutive deal() calls.
RECURSIVE DealCards(_, _)
DealCards(d, k) ==
    IF k = 0 THEN {<<<<>>, d>>}
    ELSE UNION {{<<Append(o[1], rank), DeckAfterDeal(o[2], rank)>> :
                    rank \in DealExplored(o[2])} :
                o \in DealCards(d, k - 1)}

\* Mutant of StartPlayers: the dealt cards are added to the hand a player
\* already holds instead of replacing it.
StartPlayersMut(ps, cards) ==
    [i \in 1..Len(ps) |->
        [ps[i] EXCEPT !.hand = @ \o SubSeq(cards, HandSize * (i - 1) + 1, HandSize * i),
                      !.status = "playing",
                      !.game_score = 0]]

\* self.players after start_game dealt cards[1..2n]: two to each player in
\* join order, status playing, round score zero.
StartPlayers(ps, cards) ==
    [i \in 1..Len(ps) |->
        [ps[i] EXCEPT !.hand = SubSeq(cards, HandSize * (i - 1) + 1, HandSize * i),
                      !.status = "playing",
                      !.game_score = 0]]

\* The turn index start_game sets.
FirstTurn == 0

\* ---- construction ------------------------------------------------------------
\* No session for the chat: active_games = {} at module load.  The session
\* variables of an absent session hold these fixed values.
NoSession ==
    /\ registered = FALSE
    /\ players = <<>>
    /\ dealer_hand = <<>>
    /\ deck = FullDeck
    /\ game_state = "none"
    /\ current_player_index = 0
    /\ creator_id = None
    /\ last_activity = 0

Returned(op, value, next) == [op |-> op, value |-> value, next |-> next]

Init ==
    /\ NoSession
    /\ now = 0
    /\ returned = Returned("none", "none", "none")
    /\ wake_at = 0
    /\ handler = "idle"
    /\ shuffles = Shuffles(NumExploredRanks)

\* ---- next_player ------------------------------------------------------------
\* next_player() on the player table ps and deck d that player_hit or
\* player_stand left (op and value name that call): advance the turn; with no
\* player left the dealer plays, the round is finished and the results are
\* calculated.
next_player(ps, d, op, value) ==
    LET idx == NextIndex(ps, current_player_index) IN
    /\ current_player_index' = idx
    /\ IF get_current_player_id(ps, idx) = None
       THEN \E o \in dealer_play(dealer_hand, d) :
                /\ dealer_hand' = o[1]
                /\ deck' = o[2]
                /\ game_state' = "finished"
                /\ players' = calculate_results(ps, o[1])
                /\ returned' = Returned(op, value, "game_over")
       ELSE /\ dealer_hand' = dealer_hand
            /\ deck' = d
            /\ game_state' = game_state
            /\ players' = ps
            /\ returned' = Returned(op, value, "next_player")

\* start_game(): fresh deck, two cards to every player in join order and then
\* two to the dealer, first player's turn.
start_game ==
    IF Len(players) < 1
    THEN /\ returned' = Returned("start_game", "False", "none")
         /\ UNCHANGED <<players, dealer_hand, deck, game_state, current_player_index>>
    ELSE \E o \in DealCards(FullDeck, HandSize * Len(players) + HandSize) :
            /\ game_state' = "in_progress"
            /\ players' = StartPlayers(players, o[1])
            /\ dealer_hand' = SubSeq(o[1], HandSize * Len(players) + 1,
                                     HandSize * Len(players) + HandSize)
            /\ deck' = o[2]
            /\ current_player_index' = FirstTurn
            /\ returned' = Returned("start_game", "True", "none")

\* ---- commands and buttons ---------------------------------------------------
\* Mutant of BlackjackCommand: the new session replaces the one the chat has.
BlackjackCommandMut(u) ==
    /\ UNCHANGED now
    /\ registered' = TRUE
    /\ players' = add_player(<<>>, u)
    /\ dealer_hand' = <<>>
    /\ deck' = FullDeck
    /\ game_state' = "waiting"
    /\ current_player_index' = 0
    /\ creator_id' = u
    /\ last_activity' = now
    /\ returned' = Returned("add_player", "True", "none")

\* blackjack_command: create and register a session unless the chat has one.
BlackjackCommand(u) ==
    /\ UNCHANGED now
    /\ IF registered
       THEN UNCHANGED <<registered, session, last_activity, returned>>
       ELSE /\ registered' = TRUE
            /\ players' = add_player(<<>>, u)
            /\ dealer_hand' = <<>>
            /\ deck' = FullDeck
            /\ game_state' = "waiting"
            /\ current_player_index' = 0
            /\ creator_id' = u
            /\ last_activity' = now
            /\ returned' = Returned("add_player", "True", "none")

\* button_handler when the chat has no session: whatever the button, it only
\* replies.
NoActiveGame(a) ==
    /\ ~registered
    /\ UNCHANGED <<registered, session, last_activity, now, returned>>

\* What every branch of button_handler shares once the session is found:
\* game.update_activity(), and the registry entry stays unless cancelled.
Handled ==
    /\ registered
    /\ last_activity' = now
    /\ UNCHANGED <<creator_id, now>>

Join(u) ==
    /\ Handled
    /\ returned' = Returned("add_player",
                            IF CanAddPlayer(players, u) THEN "True" ELSE "False", "none")
    /\ players' = add_player(players, u)
    /\ UNCHANGED <<registered, dealer_hand, deck, game_state, current_player_index>>

\* Mutant of StartGame: any user's press starts the round.
StartGameMut(u) ==
    /\ Handled
    /\ UNCHANGED registered
    /\ IF game_state = "waiting" /\ Len(players) >= 1
       THEN start_game
       ELSE UNCHANGED <<players, dealer_hand, deck, game_state, current_player_index,
                        returned>>

StartGame(u) ==
    /\ Handled
    /\ UNCHANGED registered
    /\ IF u = creator_id /\ game_state = "waiting" /\ Len(players) >= 1
       THEN start_game
       ELSE UNCHANGED <<players, dealer_hand, deck, game_state, current_player_index,
                        returned>>

RECURSIVE SumAbsTotals(_, _)
SumAbsTotals(ps, i) ==
    IF i = 0 THEN 0
    ELSE (IF ps[i].total_score < 0 THEN -ps[i].total_score ELSE ps[i].total_score)
         + SumAbsTotals(ps, i - 1)

\* The rematches the exploration follows: those started while the players'
\* cumulative scores, in absolute value, add up to less than MaxScore.
RematchExplored == SumAbsTotals(players, Len(players)) < MaxScore

Rematch(u) ==
    /\ Handled
    /\ UNCHANGED registered
    /\ IF u = creator_id /\ game_state = "finished"
       THEN RematchExplored /\ start_game
       ELSE UNCHANGED <<players, dealer_hand, deck, game_state, current_player_index,
                        returned>>

Hit(u) ==
    /\ Handled
    /\ UNCHANGED registered
    /\ IF NotYourTurn(u)
       THEN /\ returned' = Returned("player_hit", "not_your_turn", "none")
            /\ UNCHANGED <<players, dealer_hand, deck, game_state, current_player_index>>
       ELSE \E rank \in DealExplored(deck) :
                /\ CanDeal(deck, rank)
                /\ LET ps == player_hit(players, current_player_index, rank)
                       d == DeckAfterDeal(deck, rank)
                   IN IF calculate_hand_value(ps[current_player_index + 1].hand) > BustAbove
                      THEN next_player(ps, d, "player_hit", "bust")
                      ELSE /\ returned' = Returned("player_hit", "continue", "none")
                           /\ players' = ps
                           /\ deck' = d
                           /\ UNCHANGED <<dealer_hand, game_state, current_player_index>>

Stand(u) ==
    /\ Handled
    /\ UNCHANGED registered
    /\ IF NotYourTurn(u)
       THEN /\ returned' = Returned("player_stand", "not_your_turn", "none")
            /\ UNCHANGED <<players, dealer_hand, deck, game_state, current_player_index>>
       ELSE next_player(player_stand(players, current_player_index), deck,
                        "player_stand", "stood")

Status(u) ==
    /\ Handled
    /\ UNCHANGED <<registered, players, dealer_hand, deck, game_state,
                   current_player_index, returned>>

Leaderboard(u) ==
    /\ Handled
    /\ UNCHANGED <<registered, players, dealer_hand, deck, game_state,
                   current_player_index, returned>>

Cancel(u) ==
    /\ registered
    /\ UNCHANGED <<now, returned>>
    /\ IF u = creator_id
       THEN \* del active_games[chat_id]: the session is gone
            /\ registered' = FALSE
            /\ players' = <<>>
            /\ dealer_hand' = <<>>
            /\ deck' = FullDeck
            /\ game_state' = "none"
            /\ current_player_index' = 0
            /\ creator_id' = None
            /\ last_activity' = 0
       ELSE /\ last_activity' = now
            /\ UNCHANGED <<registered, session>>

\* Each update is handled through its reply before the next one arrives, and
\* no time passes.
Next ==
    \/ \E u \in Users : BlackjackCommand(u) /\ UNCHANGED outside
    \/ \E a \in Actions : NoActiveGame(a) /\ UNCHANGED outside
    \/ \E u \in Users : Join(u) /\ UNCHANGED outside
    \/ \E u \in Users : StartGame(u) /\ UNCHANGED outside
    \/ \E u \in Users : Hit(u) /\ UNCHANGED outside
    \/ \E u \in Users : Stand(u) /\ UNCHANGED outside
    \/ \E u \in Users : Status(u) /\ UNCHANGED outside
    \/ \E u \in Users : Rematch(u) /\ UNCHANGED outside
    \/ \E u \in Users : Leaderboard(u) /\ UNCHANGED outside
    \/ \E u \in Users : Cancel(u) /\ UNCHANGED outside

Spec == Init /\ [][Next]_vars

\* ---- the button handler at a table that is nearly full ------------------------
\* The roster specification: more users than a table takes, each of whom
\* presses every button.  It starts in the session that user 1 created and
\* users 2 to 5 joined, one seat short of a full table.
RECURSIVE Joined(_)
Joined(n) == IF n = 0 THEN <<>> ELSE add_player(Joined(n - 1), n)

InitRoster ==
    /\ registered = TRUE
    /\ players = Joined(MaxPlayers - 1)
    /\ dealer_hand = <<>>
    /\ deck = FullDeck
    /\ game_state = "waiting"
    /\ current_player_index = 0
    /\ creator_id = 1
    /\ last_activity = 0
    /\ now = 0
    /\ returned = Returned("add_player", "True", "none")
    /\ wake_at = 0
    /\ handler = "idle"
    /\ shuffles = Shuffles(NumTableRanks)

NextRoster ==
    \/ \E u \in RosterUsers : Join(u) /\ UNCHANGED outside
    \/ \E u \in RosterUsers : StartGame(u) /\ UNCHANGED outside
    \/ \E u \in RosterUsers : Hit(u) /\ UNCHANGED outside
    \/ \E u \in RosterUsers : Stand(u) /\ UNCHANGED outside
    \/ \E u \in RosterUsers : Status(u) /\ UNCHANGED outside
    \/ \E u \in RosterUsers : Rematch(u) /\ UNCHANGED outside
    \/ \E u \in RosterUsers : Leaderboard(u) /\ UNCHANGED outside
    \/ \E u \in RosterUsers : Cancel(u) /\ UNCHANGED outside
    \/ \E a \in Actions : NoActiveGame(a) /\ UNCHANGED outside

SpecRoster == InitRoster /\ [][NextRoster]_vars

\* ---- the button handler at a full table, low cards first ----------------------
\* The session that user 1 created and users 2 to 6 joined; every one of them
\* presses every button, and the shuffles followed bring the low cards of the
\* deck to the top, which makes the hands long and the deck short.
TableUsers == 1..MaxPlayers

InitTable ==
    /\ registered = TRUE
    /\ players = Joined(MaxPlayers)
    /\ dealer_hand = <<>>
    /\ deck = FullDeck
    /\ game_state = "waiting"
    /\ current_player_index = 0
    /\ creator_id = 1
    /\ last_activity = 0
    /\ now = 0
    /\ returned = Returned("add_player", "True", "none")
    /\ wake_at = 0
    /\ handler = "idle"
    /\ shuffles \in {ShufflesIn(LowOrder, NumLowRanks), ShufflesIn(LongOrder, NumLowRanks)}

\* The stands followed at this table: those of a turn-holder whose hand is
\* worth StandFrom or more (and the refused ones).
StandExplored(u) ==
    IF NotYourTurn(u) THEN TRUE
    ELSE calculate_hand_value(players[current_player_index + 1].hand) >= StandFrom

NextTable ==
    \/ \E u \in TableUsers : Join(u) /\ UNCHANGED outside
    \/ \E u \in TableUsers : StartGame(u) /\ UNCHANGED outside
    \/ \E u \in TableUsers : Hit(u) /\ UNCHANGED outside
    \/ \E u \in TableUsers : StandExplored(u) /\ Stand(u) /\ UNCHANGED outside
    \/ \E u \in TableUsers : Status(u) /\ UNCHANGED outside
    \/ \E u \in TableUsers : Rematch(u) /\ UNCHANGED outside
    \/ \E u \in TableUsers : Leaderboard(u) /\ UNCHANGED outside
    \/ \E u \in TableUsers : Cancel(u) /\ UNCHANGED outside
    \/ \E a \in Actions : NoActiveGame(a) /\ UNCHANGED outside

SpecTable == InitTable /\ [][NextTable]_vars

\* ---- dealer_play, one loop iteration per step -------------------------------
\* next_player has found no player left and calls dealer_play; every shuffle
\* is followed.  The sessions it does so in:
\* a one-player round in which the player stood on the two cards start_game
\* dealt, or busted on a third, with two cards for the dealer;
RoundOfOne ==
    \E c \in RankSet, e \in RankSet :
        /\ game_state = "in_progress"
        /\ current_player_index = 1
        /\ dealer_hand = <<c, e>>
        /\ \/ /\ players = <<[NewPlayer(1) EXCEPT !.hand = <<"K", "6">>,
                                                  !.status = "stood"]>>
              /\ returned = Returned("player_stand", "stood", "none")
              /\ deck = DeckAfterDeal(DeckAfterDeal(DeckAfterDeal(
                            DeckAfterDeal(FullDeck, "K"), "6"), c), e)
           \/ /\ players = <<[NewPlayer(1) EXCEPT !.hand = <<"K", "6", "9">>,
                                                  !.status = "busted"]>>
              /\ returned = Returned("player_hit", "bust", "none")
              /\ deck = DeckAfterDeal(DeckAfterDeal(DeckAfterDeal(DeckAfterDeal(
                            DeckAfterDeal(FullDeck, "K"), "6"), c), e), "9")

\* a session whose creator pressed stand before any round was started, where
\* nobody holds a card;
StandBeforeStart ==
    /\ game_state = "waiting"
    /\ current_player_index = 1
    /\ dealer_hand = <<>>
    /\ players = <<[NewPlayer(1) EXCEPT !.status = "stood"]>>
    /\ returned = Returned("player_stand", "stood", "none")
    /\ deck = FullDeck

\* and a session whose round is over, where a user who joined since pressed
\* stand.
StandAfterRound ==
    /\ game_state = "finished"
    /\ current_player_index = 2
    /\ dealer_hand = <<"K", "6", "K">>
    /\ players = <<[NewPlayer(1) EXCEPT !.hand = <<"K", "6">>, !.status = "stood",
                                        !.game_score = 1, !.total_score = 1,
                                        !.result = "dealer_bust"],
                   [NewPlayer(2) EXCEPT !.status = "stood"]>>
    /\ returned = Returned("player_stand", "stood", "none")
    /\ deck = DeckAfterDeal(DeckAfterDeal(DeckAfterDeal(DeckAfterDeal(DeckAfterDeal(
                  FullDeck, "K"), "6"), "K"), "6"), "K")

\* The clock has moved on since the handler recorded the activity.
InitDealer ==
    /\ registered = TRUE
    /\ RoundOfOne \/ StandBeforeStart \/ StandAfterRound
    /\ creator_id = 1
    /\ last_activity = 0
    /\ now = 1
    /\ wake_at = 0
    /\ handler = "idle"
    /\ shuffles = AllShuffles

\* The point of next_player where no player is left (line 170) and it has not
\* returned yet.
InDealerPlay ==
    /\ registered
    /\ get_current_player_id(players, current_player_index) = None
    /\ returned.value \in {"stood", "bust"}
    /\ returned.next = "none"

\* One iteration of the while loop: the dealer takes the card deal() returns.
DealerHit(rank) ==
    /\ InDealerPlay
    /\ DealerDraws(dealer_hand)
    /\ CanDeal(deck, rank)
    /\ dealer_hand' = Append(dealer_hand, rank)
    /\ deck' = DeckAfterDeal(deck, rank)
    /\ UNCHANGED <<registered, players, game_state, current_player_index, creator_id,
                   last_activity, now, returned, outside>>

\* The loop ends, and next_player resolves the round and returns.
DealerStands ==
    /\ InDealerPlay
    /\ ~DealerDraws(dealer_hand)
    /\ players' = calculate_results(players, dealer_hand)
    /\ game_state' = "finished"
    /\ last_activity' = now
    /\ returned' = [returned EXCEPT !.next = "game_over"]
    /\ UNCHANGED <<registered, dealer_hand, deck, current_player_index, creator_id,
                   now, outside>>

NextDealer ==
    \/ \E rank \in DealExplored(deck) : DealerHit(rank)
    \/ DealerStands

\* A step of the loop, or the return that follows it.
DealerMoves ==
    InDealerPlay /\ (dealer_hand' # dealer_hand \/ returned'.next = "game_over")

\* The loop runs without suspension point, so an enabled iteration is taken:
\* WF_vars(NextDealer), with ENABLED <<NextDealer>>_vars written out (at this
\* point of next_player the dealer either draws or stands, and deal() always
\* has a card).
DealerFairness == []<>(~InDealerPlay) \/ []<><<DealerMoves>>_vars

SpecDealer == InitDealer /\ [][NextDealer]_vars /\ DealerFairness

\* ---- time, the cleanup task and the admin sweep ------------------------------
\* timedelta(hours=hours) and a number of seconds, in ticks.
HoursTicks(hours) == (hours * 60 * 60) \div TickSeconds
SecondsTicks(seconds) == seconds \div TickSeconds

\* Mutant of is_inactive: a session idle for exactly the threshold is inactive.
is_inactiveMut(hours) == now - last_activity >= HoursTicks(hours)

\* game.is_inactive(hours).
is_inactive(hours) == now - last_activity > HoursTicks(hours)

\* del active_games[chat_id].
Removed ==
    /\ registered' = FALSE
    /\ players' = <<>>
    /\ dealer_hand' = <<>>
    /\ deck' = FullDeck
    /\ game_state' = "none"
    /\ current_player_index' = 0
    /\ creator_id' = None
    /\ last_activity' = 0

\* One sweep over the registry with the threshold `hours`.
Sweep(hours) ==
    IF registered /\ is_inactive(hours)
    THEN Removed
    ELSE UNCHANGED <<registered, session, last_activity>>

\* The sweep specification starts with the clock at MaxTime, the empty
\* registry, and the cleanup task due (main schedules it one second after
\* startup).
InitSweep ==
    /\ NoSession
    /\ now = MaxTime
    /\ returned = Returned("none", "none", "none")
    /\ wake_at = MaxTime
    /\ handler = "idle"
    /\ shuffles = Shuffles(NumTableRanks)

\* Five minutes pass.  Time is measured from the present: `now` stays and every
\* stored timestamp moves one tick into the past.  The cleanup task resumes
\* when its sleep is over, so time does not pass beyond wake_at without it.
Tick ==
    /\ now < wake_at
    /\ wake_at' = wake_at - 1
    /\ last_activity' = IF last_activity > 0 THEN last_activity - 1 ELSE 0
    /\ UNCHANGED <<registered, session, now, returned, handler, shuffles>>

\* Mutant of BackgroundSweep: the cycle deletes nothing.
BackgroundSweepMut ==
    /\ now = wake_at
    /\ UNCHANGED <<registered, session, last_activity>>
    /\ wake_at' = now + SecondsTicks(CheckEverySeconds)
    /\ UNCHANGED <<now, returned, handler, shuffles>>

\* One normal cycle of cleanup_inactive_games: sweep, then sleep for an hour.
BackgroundSweep ==
    /\ now = wake_at
    /\ Sweep(BackgroundHours)
    /\ wake_at' = now + SecondsTicks(CheckEverySeconds)
    /\ UNCHANGED <<now, returned, handler, shuffles>>

\* One cycle that raises, before or after the deletion: sleep for 5 minutes.
BackgroundSweepFails ==
    /\ now = wake_at
    /\ \/ UNCHANGED <<registered, session, last_activity>>
       \/ registered /\ is_inactive(BackgroundHours) /\ Removed
    /\ wake_at' = now + SecondsTicks(TickSeconds)
    /\ UNCHANGED <<now, returned, handler, shuffles>>

\* cleanup_command: an admin sweeps with the one-hour threshold; anyone else
\* is only told so.
CleanupCommand(u) ==
    /\ handler = "idle"
    /\ IF u \in AdminIds
       THEN Sweep(AdminHours)
       ELSE UNCHANGED <<registered, session, last_activity>>
    /\ UNCHANGED <<now, returned, outside>>

\* button_handler runs from its registry lookup to the await that sends the
\* reply without suspension point.
Pressed ==
    /\ handler = "idle"
    /\ handler' = "awaiting"
    /\ UNCHANGED <<wake_at, shuffles>>

\* Mutant of AfterAwait: the activity is refreshed after the reply was sent.
AfterAwaitMut ==
    /\ last_activity' = now
    /\ UNCHANGED <<registered, session>>

\* What button_handler does once the awaited reply is sent: it returns.
AfterAwait == UNCHANGED <<registered, session, last_activity>>

Resume ==
    /\ handler = "awaiting"
    /\ handler' = "idle"
    /\ AfterAwait
    /\ UNCHANGED <<now, returned, wake_at, shuffles>>

NextSweep ==
    \/ \E u \in SweepPlayers : handler = "idle" /\ BlackjackCommand(u) /\ UNCHANGED outside
    \/ \E u \in SweepUsers : CleanupCommand(u)
    \/ \E a \in Actions : Pressed /\ NoActiveGame(a)
    \/ \E u \in SweepPlayers : Pressed /\ Join(u)
    \/ \E u \in SweepPlayers : Pressed /\ StartGame(u)
    \/ \E u \in SweepPlayers : Pressed /\ Hit(u)
    \/ \E u \in SweepPlayers : Pressed /\ Stand(u)
    \/ \E u \in SweepPlayers : Pressed /\ Status(u)
    \/ \E u \in SweepPlayers : Pressed /\ Rematch(u)
    \/ \E u \in SweepPlayers : Pressed /\ Leaderboard(u)
    \/ \E u \in SweepPlayers : Pressed /\ Cancel(u)
    \/ Resume
    \/ Tick
    \/ BackgroundSweep
    \/ BackgroundSweepFails

SpecSweep == InitSweep /\ [][NextSweep]_vars

\* Time passes, the event loop resumes the cleanup task when its sleep is
\* over, and its cycles do not fail forever.
SpecSweepLive ==
    /\ SpecSweep
    /\ WF_vars(Tick)
    /\ WF_vars(BackgroundSweep \/ BackgroundSweepFails)
    /\ SF_vars(BackgroundSweep)

\* ---- calculate_hand_value on its own ------------------------------------------
\* The hands calculate_hand_value is applied to: every sequence of up to
\* MaxHandLen cards of these ranks that one deck can supply.
HandRanks == {"A", "2", "5", "9", "K"}

Hands ==
    {h \in UNION {[1..n -> HandRanks] : n \in 0..MaxHandLen} :
        \A r \in HandRanks : Cardinality({i \in DOMAIN h : h[i] = r}) <= Len(SUITS)}

\* The argument is held in dealer_hand; no session is involved.
InitHand ==
    /\ registered = FALSE
    /\ players = <<>>
    /\ dealer_hand \in Hands
    /\ deck = FullDeck
    /\ game_state = "none"
    /\ current_player_index = 0
    /\ creator_id = None
    /\ last_activity = 0
    /\ now = 0
    /\ returned = Returned("none", "none", "none")
    /\ wake_at = 0
    /\ handler = "idle"
    /\ shuffles = AllShuffles

HandValue ==
    /\ returned.op = "none"
    /\ returned' = Returned("calculate_hand_value", calculate_hand_value(dealer_hand),
                            "none")
    /\ UNCHANGED <<registered, session, last_activity, now, outside>>

NextHand == HandValue

SpecHand == InitHand /\ [][NextHand]_vars

\* ---- Deck.deal on its own -----------------------------------------------------
\* One Deck object, dealt from again and again.
InitDeck ==
    /\ registered = FALSE
    /\ players = <<>>
    /\ dealer_hand = <<>>
    /\ deck = FullDeck
    /\ game_state = "none"
    /\ current_player_index = 0
    /\ creator_id = None
    /\ last_activity = 0
    /\ now = 0
    /\ returned = Returned("none", "none", "none")
    /\ wake_at = 0
    /\ handler = "idle"
    /\ shuffles = Shuffles(NumDeckRanks)

\* deal(): the card returned, and whether the deck was regenerated first.
DeckDeal(rank) ==
    /\ CanDeal(deck, rank)
    /\ deck' = DeckAfterDeal(deck, rank)
    /\ returned' = Returned("deal", rank,
                            IF DeckLen(deck) < ReshuffleBelow THEN "regenerated" ELSE "none")
    /\ UNCHANGED <<registered, players, dealer_hand, game_state, current_player_index,
                   creator_id, last_activity, now, outside>>

NextDeck == \E rank \in DealExplored(deck) : DeckDeal(rank)

SpecDeck == InitDeck /\ [][NextDeck]_vars

\* ---- properties --------------------------------------------------------------
\* The current turn-holder: get_current_player_id().
TurnHolder == get_current_player_id(players, current_player_index)

\* The join-ordered ids of the roster.
Roster(ps) == [i \in 1..Len(ps) |-> ps[i].id]

\* ---- the handler with players who take their turns ----------------------------
\* A round is being played.
InRound == registered /\ game_state = "in_progress"

\* The current turn-holder presses hit or stand.
TurnPress ==
    \E u \in Users : u = TurnHolder /\ (Stand(u) \/ Hit(u)) /\ UNCHANGED outside

\* A step of a round that changes the hand or the status of the player at the
\* turn index: in a round, these are the steps of TurnPress.
TurnTaken ==
    /\ InRound /\ current_player_index < Len(players)
    /\ registered' /\ Len(players') = Len(players)
    /\ LET i == current_player_index + 1 IN
          players'[i].hand # players[i].hand \/ players'[i].status # players[i].status

\* The turn-holder does not wait forever: weak fairness of TurnPress during
\* rounds, WF_vars(TurnPress), with ENABLED <<TurnPress>>_vars written out (a
\* round always has a turn-holder, whose hit and stand are never refused).
TurnFairness == []<>(~InRound) \/ []<><<TurnTaken>>_vars

SpecTurns == Spec /\ TurnFairness

\* C1: a hit or stand pressed by any user other than the current turn-holder
\* (None when the turn index is past the end of the roster) returns
\* "not_your_turn" and leaves every hand, status and score, the deck, the
\* dealer's hand, the turn index and game_state unchanged.
C1_NotYourTurn ==
    [][\A u \in Users :
         (u # TurnHolder /\ (Hit(u) \/ Stand(u)))
             => /\ returned'.value = "not_your_turn"
                /\ UNCHANGED <<players, dealer_hand, deck, current_player_index,
                               game_state>>]_vars

\* C1 witness: in a round with two players the second has the turn and a hit
\* or stand by somebody else has just been refused.
C1_Witness ==
    /\ registered
    /\ game_state = "in_progress"
    /\ Len(players) = 2
    /\ current_player_index = 1
    /\ players[1].status = "stood"
    /\ returned.value = "not_your_turn"

\* C2 (as claimed): within one session game_state moves only waiting ->
\* in_progress (start_game), in_progress -> finished (next_player reporting
\* game_over) and finished -> in_progress (rematch).
C2_Transitions ==
    [][(registered /\ registered' /\ game_state' # game_state)
          => \/ /\ game_state = "waiting" /\ game_state' = "in_progress"
                /\ returned'.op = "start_game"
             \/ /\ game_state = "in_progress" /\ game_state' = "finished"
                /\ returned'.next = "game_over"
             \/ /\ game_state = "finished" /\ game_state' = "in_progress"
                /\ returned'.op = "start_game"]_vars

\* C3 (as claimed): the turn index is past the end of the roster or refers to
\* a player whose status is "playing".
C3_TurnHolderPlaying ==
    registered =>
        \/ current_player_index >= Len(players)
        \/ players[current_player_index + 1].status = "playing"

\* C3 (amended): after session creation and after every completed button
\* action the turn index is past the end of the roster or refers to a player
\* whose status is "playing" or "waiting"; it never rests on a player who has
\* stood or busted.
C3_TurnHolderNotDone ==
    registered =>
        \/ current_player_index >= Len(players)
        \/ players[current_player_index + 1].status \in {"playing", "waiting"}

\* C3 witness: a turn has passed (the first player stood) and the index
\* rests on the second player.
C3_Witness ==
    /\ registered
    /\ game_state = "in_progress"
    /\ Len(players) = 2
    /\ current_player_index = 1
    /\ players[1].status = "stood"
    /\ players[2].status = "playing"
    /\ returned.next = "next_player"

\* C4 (as claimed): a player's total_score changes only when a round that was
\* started is resolved (in_progress -> finished), and then by that round's
\* game_score.
C4_TotalScoreOncePerRound ==
    [][(registered /\ registered')
          => \A i \in 1..Len(players) :
                (i <= Len(players') /\ players'[i].total_score # players[i].total_score)
                    => /\ game_state = "in_progress"
                       /\ game_state' = "finished"
                       /\ players'[i].total_score =
                              players[i].total_score + players'[i].game_score]_vars

\* C5: when next_player has reported game_over, every player holds the result
\* and game_score the scoring table gives for that player's own status and
\* hand against the dealer's hand: busted -> (bust, -1); else dealer above 21
\* -> (dealer_bust, +1); else higher -> (win, +1), lower -> (lose, -1), equal
\* -> (push, 0); game_score is in {-1, 0, 1}.
C5_Results ==
    (registered /\ returned.next = "game_over") =>
        \A i \in 1..Len(players) :
            LET p == players[i]
                pv == calculate_hand_value(p.hand)
                dv == calculate_hand_value(dealer_hand)
                got == <<p.result, p.game_score>>
            IN /\ p.game_score \in {-1, 0, 1}
               /\ (p.status = "busted") => got = <<"bust", -1>>
               /\ (p.status # "busted" /\ dv > 21) => got = <<"dealer_bust", 1>>
               /\ (p.status # "busted" /\ dv <= 21 /\ pv > dv) => got = <<"win", 1>>
               /\ (p.status # "busted" /\ dv <= 21 /\ pv < dv) => got = <<"lose", -1>>
               /\ (p.status # "busted" /\ dv <= 21 /\ pv = dv) => got = <<"push", 0>>

\* C5 witness: a round just resolved in which one player busted and another
\* won because the dealer busted.
C5_Witness ==
    /\ registered
    /\ returned.next = "game_over"
    /\ \E i, j \in 1..Len(players) :
           players[i].result = "bust" /\ players[j].result = "dealer_bust"

\* C6: right after a successful start_game (first start or rematch) every
\* player holds exactly 2 cards with status "playing" and game_score 0, the
\* dealer holds exactly 2 cards, the turn index is 0 and game_state is
\* in_progress.
C6_AfterStart ==
    (registered /\ returned.op = "start_game" /\ returned.value = "True") =>
        /\ game_state = "in_progress"
        /\ current_player_index = 0
        /\ Len(dealer_hand) = 2
        /\ \A i \in 1..Len(players) :
               /\ Len(players[i].hand) = 2
               /\ players[i].status = "playing"
               /\ players[i].game_score = 0

\* C6 witness: a rematch has just dealt a round to two players who carry
\* results of the round before, one of them a score.
C6_Witness ==
    /\ registered
    /\ returned.op = "start_game"
    /\ returned.value = "True"
    /\ Len(players) = 2
    /\ \A i \in 1..Len(players) : players[i].result # "none"
    /\ \E i \in 1..Len(players) : players[i].total_score # 0

\* C7: the roster never exceeds 6 players, and a join by a user already in the
\* roster or on a roster of 6 returns False and leaves the whole player table
\* (members, join order, hands, statuses, scores) unchanged.
C7_RosterCapacity ==
    /\ [](Len(players) <= 6)
    /\ [][\A u \in RosterUsers :
            ((u \in PlayerIds(players) \/ Len(players) = 6) /\ Join(u))
                => (returned'.value = "False" /\ players' = players)]_vars

\* C7 witness: a join has just been refused on a roster of 6.
C7_Witness ==
    /\ registered
    /\ Len(players) = 6
    /\ returned = Returned("add_player", "False", "none")

\* C8 (as claimed): the roster of a session in state in_progress or finished
\* never changes.
C8_RosterFixedAfterStart ==
    [][(registered /\ registered' /\ game_state \in {"in_progress", "finished"})
          => Roster(players') = Roster(players)]_vars

\* C9 (as claimed): next_player reports "next_player" only when the new
\* turn-holder is a player with status "playing", and "game_over" only with
\* game_state finished and no player of the roster "playing".
C9_NextPlayerReport ==
    registered =>
        /\ (returned.next = "next_player")
               => /\ TurnHolder # None
                  /\ players[current_player_index + 1].status = "playing"
                  /\ \A i \in 1..current_player_index :
                         players[i].status \in {"busted", "stood"}
        /\ (returned.next = "game_over")
               => /\ game_state = "finished"
                  /\ \A i \in 1..Len(players) : players[i].status # "playing"

\* C10 (as claimed): a hit that reports "continue" leaves the same player the
\* turn-holder, with status "playing" and exactly one more card; the turn
\* index changes only inside next_player and start_game.
C10_HitKeepsTurn ==
    [][(registered /\ registered')
          => /\ \A u \in Users :
                    (Hit(u) /\ returned'.value = "continue")
                        => /\ current_player_index' = current_player_index
                           /\ get_current_player_id(players', current_player_index') = u
                           /\ players'[current_player_index + 1].status = "playing"
                           /\ Len(players'[current_player_index + 1].hand) =
                                  Len(players[current_player_index + 1].hand) + 1
             /\ (current_player_index' # current_player_index)
                    => (returned'.next # "none" \/ returned'.op = "start_game")]_vars

\* The hand without its last card.
Front(hand) == SubSeq(hand, 1, Len(hand) - 1)

\* C11: dealer_play terminates, adds a card only while the dealer's hand is
\* worth less than 17 and ends with a hand worth at least 17; so in every
\* finished state the dealer's hand is worth at least 17 and was worth less
\* than 17 before its last card.
C11_DealerPlay ==
    /\ <>(game_state = "finished")
    /\ [][dealer_hand' # dealer_hand
             => /\ calculate_hand_value(dealer_hand) < 17
                /\ Front(dealer_hand') = dealer_hand]_vars
    /\ [](game_state = "finished"
             => /\ calculate_hand_value(dealer_hand) >= 17
                /\ calculate_hand_value(Front(dealer_hand)) < 17)

\* The dealer drew twice, the second time onto a soft hand, and the round is
\* resolved.
C11_Witness ==
    /\ game_state = "finished"
    /\ Len(dealer_hand) = 4
    /\ dealer_hand[1] = "A"
    /\ players[1].result # "none"

\* C12: start_game, rematch and cancel pressed by a user other than the
\* creator leave the registry entry and the whole session (game_state, hands,
\* statuses, scores, turn index) unchanged and only refresh last_activity; and
\* start_game changes nothing outside "waiting", rematch nothing outside
\* "finished".
C12_CreatorOnly ==
    [][\A u \in Users :
         /\ (u # creator_id /\ (StartGame(u) \/ Rematch(u) \/ Cancel(u)))
               => (UNCHANGED <<registered, session>> /\ last_activity' = now)
         /\ (game_state # "waiting" /\ StartGame(u))
               => UNCHANGED <<registered, session>>
         /\ (game_state # "finished" /\ Rematch(u))
               => UNCHANGED <<registered, session>>]_vars

\* A second player sits in a session whose round is over: their start_game,
\* rematch and cancel presses are the refused ones.
C12_Witness ==
    /\ registered
    /\ game_state = "finished"
    /\ \E i \in 1..Len(players) :
          players[i].id # creator_id /\ players[i].result # "none"

\* How long the session has been idle, in minutes.
IdleMinutes == (now - last_activity) * (TickSeconds \div 60)

\* C13: a sweep removes the session exactly when it has been idle for
\* strictly more than its threshold, 2 hours for the background sweep and
\* 1 hour for the admin sweep, and leaves it unchanged otherwise; so a session
\* idle for 90 minutes survives the background sweep and is removed by the
\* admin sweep, and a session with activity in the last 2 hours is never
\* removed by the background sweep.
C13_SweepThreshold ==
    [][/\ (registered /\ BackgroundSweep)
            => IF IdleMinutes > 120
               THEN ~registered'
               ELSE UNCHANGED <<registered, session, last_activity>>
       /\ \A u \in AdminIds :
            (registered /\ CleanupCommand(u))
               => IF IdleMinutes > 60
                  THEN ~registered'
                  ELSE UNCHANGED <<registered, session, last_activity>>]_vars

\* A session idle for exactly 2 hours that a background cycle has just left
\* in place (the cleanup task is asleep for the full hour).
C13_Witness ==
    /\ registered
    /\ IdleMinutes = 120
    /\ wake_at - now = 12

\* C14: the background sweep never terminates: its cycles recur forever, a
\* cycle that fails is followed by the next one after the 5-minute back-off
\* and a normal cycle by the next one an hour later; so every session that
\* stops receiving activity is eventually removed from the registry.
C14_SweepForever ==
    /\ []<><<BackgroundSweep \/ BackgroundSweepFails>>_vars
    /\ [][/\ BackgroundSweepFails => (wake_at' - now') * TickSeconds = 300
          /\ BackgroundSweep => (wake_at' - now') * TickSeconds = 3600]_vars
    /\ (registered /\ last_activity < now) ~> (~registered \/ last_activity = now)

\* A session idle for more than 2 hours is still registered while the cleanup
\* task sleeps its last 5 minutes.
C14_Witness ==
    /\ registered
    /\ IdleMinutes > 120
    /\ wake_at - now = 1

\* C19: a button action looks the session up and makes all its changes in one
\* step, before its first suspension point: the step that starts a handler
\* changes a session only when it finds it registered, the step that resumes
\* a suspended handler changes nothing, and a session that is no longer
\* registered is never changed, whatever the sweeps do in between; the
\* registry only gets a session again as the fresh session /blackjack creates.
C19_NoStaleMutation ==
    [][/\ (handler = "idle" /\ handler' = "awaiting" /\ ~registered)
             => UNCHANGED <<registered, session, last_activity>>
       /\ (handler = "awaiting" /\ handler' = "idle")
             => UNCHANGED <<registered, session, last_activity>>
       /\ (~registered /\ ~registered') => UNCHANGED <<session, last_activity>>
       /\ (~registered /\ registered')
             => /\ game_state' = "waiting"
                /\ Roster(players') = <<creator_id'>>
                /\ last_activity' = now]_vars

\* A handler is still suspended at its reply when its session has been idle
\* for more than 2 hours and the cleanup task is due.
C19_Witness ==
    /\ handler = "awaiting"
    /\ registered
    /\ IdleMinutes > 120
    /\ wake_at = now

\* The totals of a hand over every way of counting each Ace as 1 or 11.
Totals(hand) ==
    LET aces == {i \in 1..Len(hand) : hand[i] = "A"}
        others == SumValues([i \in 1..Len(hand) |-> IF i \in aces THEN "10" ELSE hand[i]],
                            Len(hand)) - 10 * Cardinality(aces)
    IN {others + 11 * k + (Cardinality(aces) - k) : k \in 0..Cardinality(aces)}

\* The largest total not above 21 when there is one, else the smallest total.
BestTotal(hand) ==
    LET good == {t \in Totals(hand) : t <= 21}
        pick == IF good # {} THEN good ELSE Totals(hand)
    IN IF good # {} THEN CHOOSE t \in pick : \A o \in pick : o <= t
       ELSE CHOOSE t \in pick : \A o \in pick : t <= o

\* The hand with the cards at positions i and j exchanged.
Swapped(hand, i, j) == [hand EXCEPT ![i] = hand[j], ![j] = hand[i]]

\* C15: calculate_hand_value returns the largest total not above 21 that
\* counting each Ace as 1 or 11 can give, and the total with every Ace as 1
\* when there is none; [A, A, 9] is worth 21; and the value does not depend on
\* the order of the cards.
C15_HandValue ==
    /\ calculate_hand_value(<<"A", "A", "9">>) = 21
    /\ returned.op = "calculate_hand_value"
          => /\ returned.value = BestTotal(dealer_hand)
             /\ \A i, j \in 1..Len(dealer_hand) :
                   calculate_hand_value(Swapped(dealer_hand, i, j)) = returned.value

\* Two Aces and a 9 were evaluated: one Ace counts 11, the other 1.
C15_Witness ==
    /\ returned.op = "calculate_hand_value"
    /\ dealer_hand = <<"A", "9", "A">>
    /\ returned.value = 21

\* C16: deal() never pops from an empty deck: with fewer than 10 cards left it
\* regenerates the 52 cards and removes one, otherwise it removes one of the
\* cards left; after any deal the deck holds between 9 and 51 cards.
C16_DeckDeal ==
    /\ [](DeckLen(DeckBeforePop(deck)) > 0)
    /\ [][deck' # deck
            => IF DeckLen(deck) < 10
               THEN DeckLen(deck') = 51
               ELSE /\ DeckLen(deck') = DeckLen(deck) - 1
                    /\ \A r \in RankSet : deck'[r] <= deck[r]]_vars
    /\ [](returned.op = "deal" => (9 <= DeckLen(deck) /\ DeckLen(deck) <= 51))

\* deal() found 9 cards, regenerated the deck and returned one of the 52.
C16_Witness ==
    /\ returned.op = "deal"
    /\ returned.next = "regenerated"
    /\ DeckLen(deck) = 51

\* C17: /blackjack creates and registers a session, with the issuer as creator
\* and only player and game_state "waiting", only when the chat has none; when
\* the chat has one, the registry entry and the session's roster, game_state,
\* hands, scores, turn index and last_activity stay as they are.
C17_OneSessionPerChat ==
    [][\A u \in Users \cup SweepUsers :
         BlackjackCommand(u)
            => IF registered
               THEN UNCHANGED <<registered, session, last_activity>>
               ELSE /\ registered'
                    /\ players' = <<NewPlayer(u)>>
                    /\ creator_id' = u
                    /\ game_state' = "waiting"
                    /\ dealer_hand' = <<>>
                    /\ current_player_index' = 0
                    /\ last_activity' = now]_vars

\* The chat has a session with two players in the middle of a round, which a
\* further /blackjack has to leave alone.
C17_Witness ==
    /\ registered
    /\ game_state = "in_progress"
    /\ Len(players) = 2
    /\ \A i \in 1..Len(players) : Len(players[i].hand) >= 2

\* A step in which start_game runs: only start_game sets game_state to
\* "in_progress", and the handler calls it in "waiting" (start_game button)
\* and in "finished" (rematch button).
RoundStarts == game_state \in {"waiting", "finished"} /\ game_state' = "in_progress"

\* C20: a player whose status is "stood" or "busted" keeps hand and status
\* until the next start_game or rematch, and the turn index never decreases
\* between two start_games.
C20_OneTurnPerRound ==
    [][(registered /\ registered' /\ ~RoundStarts)
          => /\ current_player_index' >= current_player_index
             /\ \A i \in 1..Len(players) :
                   players[i].status \in {"stood", "busted"}
                      => /\ i <= Len(players')
                         /\ players'[i].hand = players[i].hand
                         /\ players'[i].status = players[i].status]_vars

\* The first player has stood and the second one has hit since.
C20_Witness ==
    /\ registered
    /\ game_state = "in_progress"
    /\ Len(players) = 2
    /\ players[1].status = "stood"
    /\ current_player_index = 1
    /\ Len(players[2].hand) > 2

\* C18: while the turn-holder keeps pressing hit or stand, every session in
\* state "in_progress" reaches "finished" or is removed: such a session always
\* has a turn-holder, a successful hit adds one card to the turn-holder's
\* hand, and the turn moves on after every bust and every stand.
C18_RoundEnds ==
    /\ []((registered /\ game_state = "in_progress")
             => (current_player_index < Len(players) /\ TurnHolder # None))
    /\ [][(/\ registered /\ game_state = "in_progress"
           /\ players' # players /\ Len(players') = Len(players))
             => LET i == current_player_index + 1 IN
                \/ /\ Len(players'[i].hand) = Len(players[i].hand) + 1
                   /\ IF calculate_hand_value(players'[i].hand) > 21
                      THEN /\ players'[i].status = "busted"
                           /\ current_player_index' > current_player_index
                      ELSE current_player_index' = current_player_index
                \/ /\ players'[i].hand = players[i].hand
                   /\ players'[i].status = "stood"
                   /\ current_player_index' > current_player_index]_vars
    /\ InRound ~> (~registered \/ game_state = "finished")

\* The second of two players holds the turn with three cards in hand: the
\* first one is done and the round still has to end.
C18_Witness ==
    /\ registered
    /\ game_state = "in_progress"
    /\ TurnHolder = 2
    /\ current_player_index = 1
    /\ Len(players[2].hand) = 3
    /\ players[1].status = "busted"

\* How many cards of a rank a hand holds.
CountRank(hand, r) == Cardinality({i \in 1..Len(hand) : hand[i] = r})

\* How many cards of a rank the players and the dealer hold.
RECURSIVE HeldByPlayers(_, _, _)
HeldByPlayers(ps, i, r) ==
    IF i = 0 THEN 0 ELSE CountRank(ps[i].hand, r) + HeldByPlayers(ps, i - 1, r)

Held(r) == HeldByPlayers(players, Len(players), r) + CountRank(dealer_hand, r)

\* The value of a rank and of a hand with every Ace counted as 1.
LowRank(r) == IF r = "A" THEN 1 ELSE CardValue(r)

RECURSIVE LowValue(_, _)
LowValue(hand, i) == IF i = 0 THEN 0 ELSE LowRank(hand[i]) + LowValue(hand, i - 1)

\* C21: at a table of six, the cards in the players' hands, in the dealer's
\* hand and in the deck are together exactly the 52 cards, each held once (of
\* every rank, the four cards are split between hands and deck), and the deck
\* keeps the 10 cards below which deal() regenerates it: that branch is never
\* taken while a hand holds cards.  It stays out of reach because, with every
\* Ace counted as 1, a hand is worth at most 21 before its last card and the
\* dealer's at most 16.
C21_FiftyTwoCards ==
    registered =>
        /\ Len(players) <= MaxPlayers
        /\ \A r \in RankSet : Held(r) + deck[r] = Len(SUITS)
        /\ DeckLen(deck) >= ReshuffleBelow
        /\ \A i \in 1..Len(players) :
              /\ LowValue(players[i].hand, Len(players[i].hand)) <= BustAbove + FaceValue
              /\ Len(players[i].hand) > 0
                    => LowValue(players[i].hand, Len(players[i].hand) - 1) <= BustAbove
        /\ LowValue(dealer_hand, Len(dealer_hand)) <= DealerStandsAt - 1 + FaceValue

\* A resolved round of six players who all drew, one of them onto Aces, in
\* which 37 cards left the deck.
C21_Witness ==
    /\ registered
    /\ game_state = "finished"
    /\ Len(players) = MaxPlayers
    /\ \A i \in 1..Len(players) : Len(players[i].hand) >= 3
    /\ \E i \in 1..Len(players) : CountRank(players[i].hand, "A") >= 2
    /\ Len(dealer_hand) >= 3
    /\ DeckLen(deck) = 15

\* C22 (as claimed): in a finished session every player of the roster has a
\* result (win, lose, push, bust or dealer_bust) and status "stood" or
\* "busted".
C22_FinishedHasResults ==
    (registered /\ game_state = "finished") =>
        \A i \in 1..Len(players) :
            /\ players[i].result \in {"win", "lose", "push", "bust", "dealer_bust"}
            /\ players[i].status \in {"stood", "busted"}

====
